---- MODULE Spec2Model ----
(***************************************************************************)
(* Model of the backtest engine of quantL (src/src/backtest/               *)
(* backtest_engine.py) driven by the dual moving average strategy          *)
(* (src/src/strategy/dual_ma_strategy.py).                                 *)
(*                                                                         *)
(* Dates are day numbers.  Money (cash, prices, trade values, costs) is    *)
(* counted in ticks of 1/RateDen of a currency unit, so that the cost      *)
(* rates 0.0003 and 0.0001 are exact; arithmetic is exact rational         *)
(* arithmetic, a quotient being kept as a record [num, den].               *)
(***************************************************************************)
EXTENDS Integers, Sequences, FiniteSets, TLC

(***************************************************************************)
(* Bounds of the model.                                                    *)
(***************************************************************************)
\* number of days of every full series after the look-back rows
TailLen == 2
\* number of times run_backtest is called on the engine
MaxRuns == 2
\* number of days of a long series after the first tail day
LongLen == 4

(***************************************************************************)
(* Program constants.                                                      *)
(***************************************************************************)
\* backtest_engine.py:135   len(hist_data) > 20
MinHistory == 20
\* dual_ma_strategy.py:33   params.get('short_ma', 5)
short_ma == 5
\* dual_ma_strategy.py:34   params.get('long_ma', 20)
long_ma == 20
\* ticks per currency unit; 0.0003 = 3 / RateDen, 0.0001 = 1 / RateDen
RateDen == 10000
\* backtest_engine.py:39    backtest_params.get('commission', 0.0003)
commission == 3
\* backtest_engine.py:40    backtest_params.get('slippage', 0.0001)
slippage == 1

(***************************************************************************)
(* Inputs of a run, drawn from small sets.                                 *)
(***************************************************************************)
\* the keys a data mapping may have, in the order a dict iterates them
SymbolOrder == <<"A", "B">>
Symbols == {SymbolOrder[i] : i \in 1..Len(SymbolOrder)}

BasePrice == 10 * RateDen
PriceLevels == {5 * RateDen, 10 * RateDen, 20 * RateDen}

FirstTailDay == MinHistory + 1
LastDay == MinHistory + TailLen
WarmDays == 1..MinHistory
TailDays == FirstTailDay..LastDay
LateDays == (FirstTailDay + 1)..LastDay

\* a DataFrame: a function from the dates of its index to the close price
EmptySeries == [d \in {} |-> 0]
WarmSeries == [d \in WarmDays |-> BasePrice]
FullSeries(path) == [d \in WarmDays \cup TailDays |-> IF d \in WarmDays THEN BasePrice ELSE path[d]]
\* a series that begins after the first tail day: it never has more than
\* MinHistory rows
LateSeries == [d \in LateDays |-> BasePrice]
SeriesFamily ==
    {EmptySeries, WarmSeries, LateSeries}
        \cup {FullSeries(p) : p \in [TailDays -> PriceLevels]}

\* data: Dict[str, DataFrame], the keys a subset of Symbols
DataFamily == UNION {[K -> SeriesFamily] : K \in SUBSET Symbols}

\* initial_capital in ticks (positive, zero, negative) with position_size as
\* a fraction num / den (0.1, the default, or 1)
Accounts ==
    {[capital |-> 1000 * RateDen, size |-> [num |-> 1, den |-> 10]],
     [capital |-> 1000 * RateDen, size |-> [num |-> 1, den |-> 1]],
     [capital |-> 0, size |-> [num |-> 1, den |-> 10]],
     [capital |-> 0 - 990 * RateDen, size |-> [num |-> 1, den |-> 1]],
     [capital |-> 0 - 990 * RateDen, size |-> [num |-> 1, den |-> 10]]}
\* [start_date, end_date]: the whole tail, the tail but its first day, and
\* a start after the end
DateRanges ==
    {<<FirstTailDay, LastDay>>, <<FirstTailDay + 1, LastDay>>, <<LastDay, FirstTailDay>>}

\* A long series: the look-back rows and the first tail day at the base
\* price, then LongLen days at prices that let a holding be bought, oversold
\* and bought back.
LongLevels == {5 * RateDen, 12 * RateDen, 58 * RateDen}
LongDays == (FirstTailDay + 1)..(FirstTailDay + LongLen)
CalendarEnd == IF FirstTailDay + LongLen > LastDay THEN FirstTailDay + LongLen ELSE LastDay
LongSeries(path) ==
    [d \in WarmDays \cup {FirstTailDay} \cup LongDays |->
        IF d \in LongDays THEN path[d] ELSE BasePrice]
LongData == {[s \in {SymbolOrder[1]} |-> LongSeries(p)] : p \in [LongDays -> LongLevels]}
\* initial_capital 1010.0904 with the default position_size
LongAccount == [capital |-> 1010 * RateDen + 904, size |-> [num |-> 1, den |-> 10]]

VARIABLES
    data, start_date, end_date, initial_capital, position_size,
    current_capital, positions, trades, portfolio_values, daily_returns,
    pc, all_dates, di, si, current_prices, signals, hist_data, exec,
    results, runs, outcomes, parked, handed

inputs == <<data, start_date, end_date, initial_capital, position_size>>
engine == <<current_capital, positions, trades, portfolio_values, daily_returns>>
locals == <<all_dates, di, si, current_prices, signals, hist_data, exec>>
vars == <<inputs, engine, locals, pc, results, runs, outcomes, parked, handed>>

(***************************************************************************)
(* Helpers.                                                                *)
(***************************************************************************)
Abs(x) == IF x < 0 THEN 0 - x ELSE x

\* Python's int(a / b) for b > 0: the quotient truncated toward zero
TruncDiv(a, b) == IF a >= 0 THEN a \div b ELSE 0 - ((0 - a) \div b)

\* sorted(list(S)) for a set of dates: the days of the calendar in ascending
\* order, those outside S left out
Sorted(S) == SelectSeq([d \in 1..CalendarEnd |-> d], LAMBDA d : d \in S)

\* the keys of a dict in iteration order
Keys(d) == SelectSeq(SymbolOrder, LAMBDA s : s \in DOMAIN d)

\* df[df.index <= date]
SliceUpTo(df, date) == [d \in {x \in DOMAIN df : x <= date} |-> df[d]]

(***************************************************************************)
(* BacktestEngine._get_common_dates: the loop over data.items(), with      *)
(* common_dates = None kept as [none |-> TRUE].                            *)
(***************************************************************************)
\* mutant of SkipEmpty: the 'if df.empty: continue' is missing
SkipEmptyNever(df) == FALSE

SkipEmpty(df) == DOMAIN df = {}

\* mutant of InRange: the end date is excluded
InRangeEndExcluded(df, sd, ed) == {d \in DOMAIN df : d >= sd /\ d < ed}

InRange(df, sd, ed) == {d \in DOMAIN df : d >= sd /\ d <= ed}

RECURSIVE CommonDatesLoop(_, _, _, _, _)
CommonDatesLoop(dat, sd, ed, i, cd) ==
    IF i > Len(Keys(dat)) THEN cd
    ELSE LET df == dat[Keys(dat)[i]] IN
         IF SkipEmpty(df) THEN CommonDatesLoop(dat, sd, ed, i + 1, cd)
         ELSE IF cd.none
              THEN CommonDatesLoop(dat, sd, ed, i + 1,
                                   [none |-> FALSE, set |-> InRange(df, sd, ed)])
              ELSE CommonDatesLoop(dat, sd, ed, i + 1,
                                   [none |-> FALSE, set |-> cd.set \cap InRange(df, sd, ed)])

\* mutant of get_common_dates: the dates are returned in descending order
get_common_dates_descending(dat, sd, ed) ==
    LET cd == CommonDatesLoop(dat, sd, ed, 1, [none |-> TRUE, set |-> {}])
        asc == Sorted(cd.set)
    IN  IF ~cd.none /\ cd.set # {}
        THEN [i \in 1..Len(asc) |-> asc[Len(asc) + 1 - i]]
        ELSE <<>>

get_common_dates(dat, sd, ed) ==
    LET cd == CommonDatesLoop(dat, sd, ed, 1, [none |-> TRUE, set |-> {}])
    IN  IF ~cd.none /\ cd.set # {} THEN Sorted(cd.set) ELSE <<>>

(***************************************************************************)
(* DualMAStrategy.generate_signals: the 'signal' column.  A rolling mean   *)
(* over fewer rows than its window is NaN and every comparison with NaN    *)
(* is false.  Means are compared by cross-multiplying the window sums.     *)
(***************************************************************************)
RECURSIVE SumRows(_, _, _)
SumRows(closes, lo, hi) == IF lo > hi THEN 0 ELSE closes[hi] + SumRows(closes, lo, hi - 1)

\* rolling(window = n).sum() at row i, for i >= n
RollingSum(closes, i, n) == SumRows(closes, i - n + 1, i)

SignalAtRow(closes, i) ==
    LET def(j) == j >= short_ma /\ j >= long_ma
        s(j) == RollingSum(closes, j, short_ma) * long_ma
        l(j) == RollingSum(closes, j, long_ma) * short_ma
    IN  IF def(i) /\ def(i - 1) /\ s(i) > l(i) /\ s(i - 1) <= l(i - 1) THEN 1
        ELSE IF def(i) /\ def(i - 1) /\ s(i) < l(i) /\ s(i - 1) >= l(i - 1) THEN 0 - 1
        ELSE 0

\* signal_df['signal'], indexed like the history it was given
generate_signals(hist) ==
    LET rows == Sorted(DOMAIN hist)
        \* the 'close' column as a sequence
        closes == [i \in 1..Len(rows) |-> hist[rows[i]]] \o <<>>
        rowOf(d) == CHOOSE i \in 1..Len(rows) : rows[i] = d
    IN  [d \in DOMAIN hist |-> SignalAtRow(closes, rowOf(d))]

(***************************************************************************)
(* DualMAStrategy.calculate_position_size                                  *)
(***************************************************************************)
calculate_position_size(signal, price, capital) ==
    IF signal = 0 THEN 0
    ELSE LET max_shares ==
                 TruncDiv(capital * Abs(signal) * position_size.num,
                          position_size.den * price)
         IN  IF signal > 0 THEN max_shares ELSE 0 - max_shares

(***************************************************************************)
(* State after construction (BacktestEngine.__init__) and before the       *)
(* first call of run_backtest.                                             *)
(***************************************************************************)
NoPositions == [s \in {} |-> 0]
NoPrices == [s \in {} |-> 0]
NoSignals == [s \in {} |-> 0]
NoHistory == [s \in {} |-> EmptySeries]
\* the locals of one iteration of the loop of _execute_trades
NoExec ==
    [symbol |-> "", branch |-> "none", signal |-> 0, price |-> 0,
     target_quantity |-> 0, current_quantity |-> 0, trade_quantity |-> 0,
     trade_value |-> 0, total_cost |-> 0]
\* no call has returned yet
NoResult == [returned |-> FALSE]
\* the {} that _calculate_results returns without snapshots
EmptyResult == [returned |-> TRUE, empty |-> TRUE]
Zero == [num |-> 0, den |-> 1]

\* the frame of a second caller of the engine that has not called yet
NoCaller ==
    [pc |-> "idle", all_dates |-> <<>>, di |-> 0, si |-> 0, current_prices |-> NoPrices,
     signals |-> NoSignals, hist_data |-> NoHistory, exec |-> NoExec, results |-> NoResult]

Init ==
    /\ \/ /\ data \in DataFamily
          /\ \E r \in DateRanges : start_date = r[1] /\ end_date = r[2]
          /\ \E a \in Accounts : initial_capital = a.capital /\ position_size = a.size
       \/ /\ data \in LongData
          /\ start_date = FirstTailDay
          /\ end_date = FirstTailDay + LongLen
          /\ initial_capital = LongAccount.capital
          /\ position_size = LongAccount.size
    /\ current_capital = initial_capital
    /\ positions = NoPositions
    /\ trades = <<>>
    /\ portfolio_values = <<>>
    /\ daily_returns = <<>>
    /\ pc = "idle"
    /\ all_dates = <<>>
    /\ di = 0
    /\ si = 0
    /\ current_prices = NoPrices
    /\ signals = NoSignals
    /\ hist_data = NoHistory
    /\ exec = NoExec
    /\ results = NoResult
    /\ runs = 0
    /\ outcomes = <<>>
    /\ parked = NoCaller
    /\ handed = <<>>

(***************************************************************************)
(* run_backtest, lines 65-78: reset(), then the aligned dates.             *)
(***************************************************************************)
\* The lists a returned result refers to ('trades': self.trades and
\* 'daily_returns': self.daily_returns, lines 302-303) are objects the
\* caller keeps.  handed has one entry per returned result: while live, its
\* two lists ARE the engine's current lists; once the engine binds its
\* fields to other lists, the entry holds what the old lists contained.
HandedResult(log, returns) == [live |-> TRUE, trades |-> log, daily_returns |-> returns]

\* self.trades = [] and self.daily_returns = []: the fields are bound to new
\* lists, the old ones stay as they are with whoever holds them
Rebound(held) ==
    [i \in 1..Len(held) |->
        IF held[i].live
        THEN [live |-> FALSE, trades |-> trades, daily_returns |-> daily_returns]
        ELSE held[i]]

\* mutant of reset: the two logs are emptied in place (list.clear()), so
\* they remain the lists handed out earlier
resetClearingInPlace ==
    /\ current_capital' = initial_capital
    /\ positions' = NoPositions
    /\ trades' = <<>>
    /\ portfolio_values' = <<>>
    /\ daily_returns' = <<>>
    /\ handed' = handed

\* mutant of reset: the cash is not set back to the initial capital
resetKeepingCash ==
    /\ current_capital' = current_capital
    /\ positions' = NoPositions
    /\ trades' = <<>>
    /\ portfolio_values' = <<>>
    /\ daily_returns' = <<>>
    /\ handed' = Rebound(handed)

\* mutant of reset: the holdings are kept
resetKeepingPositions ==
    /\ current_capital' = initial_capital
    /\ positions' = positions
    /\ trades' = <<>>
    /\ portfolio_values' = <<>>
    /\ daily_returns' = <<>>
    /\ handed' = Rebound(handed)

reset ==
    /\ current_capital' = initial_capital
    /\ positions' = NoPositions
    /\ trades' = <<>>
    /\ portfolio_values' = <<>>
    /\ daily_returns' = <<>>
    /\ handed' = Rebound(handed)

run_backtest ==
    /\ pc \in {"idle", "done", "raised"}
    /\ runs' = runs + 1
    /\ reset
    /\ all_dates' = get_common_dates(data, start_date, end_date)
    /\ di' = 1
    /\ si' = 0
    /\ current_prices' = NoPrices
    /\ signals' = NoSignals
    /\ hist_data' = NoHistory
    /\ exec' = NoExec
    /\ results' = NoResult
    /\ pc' = IF all_dates' = <<>> THEN "calc" ELSE "signals"
    /\ UNCHANGED <<inputs, parked, outcomes>>

RunBacktest ==
    /\ runs < MaxRuns
    /\ run_backtest

\* a caller's reset() between two calls of run_backtest
Reset ==
    /\ pc \in {"idle", "done", "raised"}
    /\ reset
    /\ UNCHANGED <<inputs, parked, locals, pc, results, runs, outcomes>>

(***************************************************************************)
(* _process_date, lines 122-138: the prices of the date and the signals.   *)
(***************************************************************************)
\* mutant of HistoryFor: the whole series is handed over
HistoryUnsliced(df, date) == df

\* hist_data = df[df.index <= date]
HistoryFor(df, date) == SliceUpTo(df, date)

\* mutant of PricesOn: the close is looked up under the following date
PricesOnNextDay(date) ==
    [s \in {x \in DOMAIN data : date + 1 \in DOMAIN data[x]} |-> data[s][date + 1]]

\* lines 122-127: the close of every frame that has the date
PricesOn(date) ==
    [s \in {x \in DOMAIN data : date \in DOMAIN data[x]} |-> data[s][date]]

HistoriesOn(date) ==
    [s \in {x \in DOMAIN data : date \in DOMAIN data[x]} |-> HistoryFor(data[s], date)]

\* mutant of EnoughHistory: the length of the history is not tested
EnoughHistoryAlways(hist) == TRUE

\* line 135: len(hist_data) > 20
EnoughHistory(hist) == Cardinality(DOMAIN hist) > MinHistory

SignalsOn(date, hists) ==
    [s \in {x \in DOMAIN hists :
               /\ EnoughHistory(hists[x])
               /\ date \in DOMAIN generate_signals(hists[x])}
        |-> generate_signals(hists[s])[date]]

ProcessDate ==
    /\ pc = "signals"
    /\ current_prices' = PricesOn(all_dates[di])
    /\ hist_data' = HistoriesOn(all_dates[di])
    /\ signals' = SignalsOn(all_dates[di], hist_data')
    /\ pc' = IF DOMAIN signals' = {} THEN "snapshot" ELSE "trades"
    /\ si' = 1
    /\ exec' = NoExec
    /\ UNCHANGED <<inputs, parked, handed, engine, all_dates, di, results, runs, outcomes>>

(***************************************************************************)
(* _execute_trades, lines 154-184: one iteration of the loop over          *)
(* signals.items() is one step.                                            *)
(***************************************************************************)
\* mutant of CostOf: the rate is charged as a flat fee
CostOfFlat(trade_value, rate) == rate

\* trade_value * rate, the rate given in 1/RateDen (every price is a whole
\* number of currency units, so the quotient is exact)
CostOf(trade_value, rate) == (trade_value * rate) \div RateDen

\* self.positions.get(symbol, 0)
QuantityHeld(pos, symbol) == IF symbol \in DOMAIN pos THEN pos[symbol] ELSE 0

\* the locals of the iteration for symbol, lines 158-176
TradePlan(symbol) ==
    LET signal == signals[symbol]
        current_price == current_prices[symbol]
        target_quantity == calculate_position_size(signal, current_price, current_capital)
        current_quantity == QuantityHeld(positions, symbol)
        trade_quantity == target_quantity - current_quantity
        trade_value == Abs(trade_quantity) * current_price
        commission_cost == CostOf(trade_value, commission)
        slippage_cost == CostOf(trade_value, slippage)
    IN  [symbol |-> symbol, branch |-> "none", signal |-> signal, price |-> current_price,
         target_quantity |-> target_quantity, current_quantity |-> current_quantity,
         trade_quantity |-> trade_quantity, trade_value |-> trade_value,
         total_cost |-> commission_cost + slippage_cost]

\* mutant of Affordable: every buy is let through
AffordableAlways(plan) == TRUE

\* mutant of Affordable: the cost is left out of the required capital
AffordableWithoutCost(plan) == plan.trade_value <= current_capital

\* line 181: required_capital <= self.current_capital
Affordable(plan) == plan.trade_value + plan.total_cost <= current_capital

\* the symbol of the iteration and the move to the next iteration, or to
\* _update_portfolio_value after the last one
CurrentSymbol == Keys(signals)[si]

NextIteration ==
    IF si < Len(Keys(signals))
    THEN si' = si + 1 /\ pc' = "trades"
    ELSE si' = si /\ pc' = "snapshot"

\* mutant of TradeRecord: the balance recorded is the cash before the trade
TradeRecordStaleCash(date, symbol, action, quantity, price, cost, capital) ==
    [date |-> date, symbol |-> symbol, action |-> action, quantity |-> quantity,
     price |-> price, value |-> quantity * price, cost |-> cost, capital |-> current_capital]

TradeRecord(date, symbol, action, quantity, price, cost, capital) ==
    [date |-> date, symbol |-> symbol, action |-> action, quantity |-> quantity,
     price |-> price, value |-> quantity * price, cost |-> cost, capital |-> capital]

\* _execute_buy, lines 186-205
BuyPositions(pos, symbol, quantity) ==
    [s \in DOMAIN pos \cup {symbol} |->
        IF s = symbol THEN QuantityHeld(pos, symbol) + quantity ELSE pos[s]]

execute_buy(symbol, quantity, price, cost, date) ==
    /\ current_capital' = current_capital - (quantity * price + cost)
    /\ positions' = BuyPositions(positions, symbol, quantity)
    /\ trades' = Append(trades,
           TradeRecord(date, symbol, "BUY", quantity, price, cost, current_capital'))

\* mutant of SellPositions: an entry that reaches 0 is kept
SellPositionsKeepingZero(pos, symbol, quantity) ==
    IF symbol \in DOMAIN pos
    THEN [pos EXCEPT ![symbol] = pos[symbol] - quantity]
    ELSE pos

\* _execute_sell, lines 209-229
SellPositions(pos, symbol, quantity) ==
    IF symbol \in DOMAIN pos
    THEN IF pos[symbol] - quantity = 0
         THEN [s \in DOMAIN pos \ {symbol} |-> pos[s]]
         ELSE [pos EXCEPT ![symbol] = pos[symbol] - quantity]
    ELSE pos

execute_sell(symbol, quantity, price, cost, date) ==
    /\ current_capital' = current_capital + (quantity * price - cost)
    /\ positions' = SellPositions(positions, symbol, quantity)
    /\ trades' = Append(trades,
           TradeRecord(date, symbol, "SELL", quantity, price, cost, current_capital'))

\* mutant of ExecuteNoTrade: without the test of line 171 a zero quantity
\* falls through to the sell branch
ExecuteNoTradeUnguarded ==
    /\ pc = "trades"
    /\ \/ /\ CurrentSymbol \notin DOMAIN current_prices
          /\ exec' = [NoExec EXCEPT !.symbol = CurrentSymbol, !.branch = "noprice"]
          /\ UNCHANGED <<current_capital, positions, trades>>
       \/ /\ CurrentSymbol \in DOMAIN current_prices
          /\ TradePlan(CurrentSymbol).trade_quantity = 0
          /\ LET plan == TradePlan(CurrentSymbol)
             IN  execute_sell(plan.symbol, 0, plan.price, plan.total_cost, all_dates[di])
          /\ exec' = [TradePlan(CurrentSymbol) EXCEPT !.branch = "notrade"]
    /\ NextIteration
    /\ UNCHANGED <<inputs, parked, handed, portfolio_values, daily_returns, all_dates, di,
                   current_prices, signals, hist_data, results, runs, outcomes>>

\* line 155 (no price) or line 171 (trade_quantity == 0): nothing to do
ExecuteNoTrade ==
    /\ pc = "trades"
    /\ \/ /\ CurrentSymbol \notin DOMAIN current_prices
          /\ exec' = [NoExec EXCEPT !.symbol = CurrentSymbol, !.branch = "noprice"]
       \/ /\ CurrentSymbol \in DOMAIN current_prices
          /\ TradePlan(CurrentSymbol).trade_quantity = 0
          /\ exec' = [TradePlan(CurrentSymbol) EXCEPT !.branch = "notrade"]
    /\ NextIteration
    /\ UNCHANGED <<inputs, parked, handed, engine, all_dates, di, current_prices, signals, hist_data,
                   results, runs, outcomes>>

\* lines 179-182, the buy is affordable
ExecuteBuy ==
    /\ pc = "trades"
    /\ CurrentSymbol \in DOMAIN current_prices
    /\ LET plan == TradePlan(CurrentSymbol)
       IN  /\ plan.trade_quantity > 0
           /\ Affordable(plan)
           /\ execute_buy(plan.symbol, plan.trade_quantity, plan.price, plan.total_cost,
                          all_dates[di])
           /\ exec' = [plan EXCEPT !.branch = "buy"]
    /\ NextIteration
    /\ UNCHANGED <<inputs, parked, handed, portfolio_values, daily_returns, all_dates, di, current_prices,
                   signals, hist_data, results, runs, outcomes>>

\* lines 179-181, the buy is not affordable: nothing happens
SkipBuy ==
    /\ pc = "trades"
    /\ CurrentSymbol \in DOMAIN current_prices
    /\ LET plan == TradePlan(CurrentSymbol)
       IN  /\ plan.trade_quantity > 0
           /\ ~Affordable(plan)
           /\ exec' = [plan EXCEPT !.branch = "skip"]
    /\ NextIteration
    /\ UNCHANGED <<inputs, parked, handed, engine, all_dates, di, current_prices, signals, hist_data,
                   results, runs, outcomes>>

\* lines 183-184
ExecuteSell ==
    /\ pc = "trades"
    /\ CurrentSymbol \in DOMAIN current_prices
    /\ LET plan == TradePlan(CurrentSymbol)
       IN  /\ plan.trade_quantity < 0
           /\ execute_sell(plan.symbol, Abs(plan.trade_quantity), plan.price,
                           plan.total_cost, all_dates[di])
           /\ exec' = [plan EXCEPT !.branch = "sell"]
    /\ NextIteration
    /\ UNCHANGED <<inputs, parked, handed, portfolio_values, daily_returns, all_dates, di, current_prices,
                   signals, hist_data, results, runs, outcomes>>

(***************************************************************************)
(* _update_portfolio_value, lines 233-257.                                 *)
(***************************************************************************)
RECURSIVE SumOver(_, _)
SumOver(S, f) ==
    IF S = {} THEN 0
    ELSE LET x == CHOOSE y \in S : TRUE IN f[x] + SumOver(S \ {x}, f)

\* mutant of PositionValue: the quantity is not multiplied by the price
PositionValueUnpriced(pos, prices) ==
    SumOver(DOMAIN pos \cap DOMAIN prices, [s \in DOMAIN pos \cap DOMAIN prices |-> pos[s]])

\* lines 236-239: the holdings that have a price, at that price
PositionValue(pos, prices) ==
    SumOver(DOMAIN pos \cap DOMAIN prices,
            [s \in DOMAIN pos \cap DOMAIN prices |-> pos[s] * prices[s]])

Snapshot(date, cash, position_value) ==
    [date |-> date, cash |-> cash, position_value |-> position_value,
     total_value |-> cash + position_value]

\* The quotient of line 254 raises ZeroDivisionError when both operands are
\* Python numbers, which they are as long as no trade touched the cash and
\* no holding was valued; a numpy operand makes it inf or nan instead.
DivisionRaises(prev_value) == prev_value = 0 /\ trades = <<>>

\* mutant of DailyReturn: the previous value is not subtracted
DailyReturnGross(total_value, prev_value) == [num |-> total_value, den |-> prev_value]

\* line 254: (total_value - prev_value) / prev_value
DailyReturn(total_value, prev_value) ==
    [num |-> total_value - prev_value, den |-> prev_value]

\* mutant of AppendDailyReturn: nothing is recorded for the first snapshot
AppendDailyReturnFromSecond(returns, snaps) ==
    IF Len(snaps) > 1
    THEN Append(returns, DailyReturn(snaps[Len(snaps)].total_value,
                                     snaps[Len(snaps) - 1].total_value))
    ELSE returns

\* lines 251-257, snaps being the table with the new snapshot in it
AppendDailyReturn(returns, snaps) ==
    IF Len(snaps) > 1
    THEN Append(returns, DailyReturn(snaps[Len(snaps)].total_value,
                                     snaps[Len(snaps) - 1].total_value))
    ELSE Append(returns, Zero)

UpdatePortfolioValue ==
    /\ pc = "snapshot"
    /\ LET date == all_dates[di]
           snap == Snapshot(date, current_capital, PositionValue(positions, current_prices))
       IN  /\ portfolio_values' = Append(portfolio_values, snap)
           /\ IF /\ Len(portfolio_values') > 1
                 /\ DivisionRaises(portfolio_values[Len(portfolio_values)].total_value)
              THEN /\ daily_returns' = daily_returns
                   /\ pc' = "raised"
                   /\ di' = di
                   /\ outcomes' = Append(outcomes,
                          [status |-> "raised", results |-> NoResult, trades |-> trades,
                           portfolio_values |-> portfolio_values',
                           daily_returns |-> daily_returns'])
              ELSE /\ daily_returns' = AppendDailyReturn(daily_returns, portfolio_values')
                   /\ pc' = IF di < Len(all_dates) THEN "signals" ELSE "calc"
                   /\ di' = IF di < Len(all_dates) THEN di + 1 ELSE di
                   /\ outcomes' = outcomes
    /\ UNCHANGED <<inputs, parked, handed, current_capital, positions, trades, all_dates, si, current_prices,
                   signals, hist_data, exec, results, runs>>

(***************************************************************************)
(* _calculate_results, lines 259-306, and the return of run_backtest.      *)
(***************************************************************************)
\* A quotient [num, den] with den = 0 is what the float division gives:
\* nan for 0 / 0, inf or -inf otherwise.
NaN == [num |-> 0, den |-> 0]
IsNaN(q) == q.den = 0 /\ q.num = 0
Finite(q) == q.den # 0

\* a / b < c / d for b > 0 and d > 0, compared through the integer parts and
\* the remainders so that no product is formed
RECURSIVE FracLess(_, _, _, _)
FracLess(a, b, c, d) ==
    IF a \div b # c \div d THEN a \div b < c \div d
    ELSE IF a % b = 0 THEN c % d # 0
    ELSE IF c % d = 0 THEN FALSE
    ELSE FracLess(d, c % d, b, a % b)

\* p < q for two quotients that are not nan
QLess(p, q) ==
    IF Finite(p) /\ Finite(q)
    THEN FracLess(IF p.den < 0 THEN 0 - p.num ELSE p.num, Abs(p.den),
                  IF q.den < 0 THEN 0 - q.num ELSE q.num, Abs(q.den))
    ELSE IF Finite(p) THEN q.num > 0
    ELSE IF Finite(q) THEN p.num < 0
    ELSE p.num < 0 /\ q.num > 0

\* seq[1:], which is empty for an empty list
AfterFirst(seq) == IF seq = <<>> THEN <<>> ELSE Tail(seq)

\* line 273: (1 + total_return) ** (365 / days) - 1, kept as the power it is;
\* it is 0 exactly when the base is 1
annual_return(total_return, days) ==
    IF days > 0
    THEN IF Finite(total_return) /\ total_return.num = 0
         THEN Zero
         ELSE [base |-> [num |-> total_return.num + total_return.den,
                         den |-> total_return.den],
               exponent |-> [num |-> 365, den |-> days]]
    ELSE Zero

\* line 277: daily_returns_series.std() > 0.  pandas leaves nan entries out;
\* the sample deviation of fewer than two entries, or of entries with an
\* infinite one, is nan, and of equal entries 0.
StdPositive(series) ==
    LET kept == SelectSeq(series, LAMBDA q : ~IsNaN(q))
    IN  /\ Len(kept) >= 2
        /\ \A i \in 1..Len(kept) : Finite(kept[i])
        /\ \E i \in 1..Len(kept) : QLess(kept[i], kept[1]) \/ QLess(kept[1], kept[i])

\* line 277: mean / std * sqrt(252), kept as the sample it is computed from
sharpe_ratio(series) ==
    IF StdPositive(series) THEN [sample |-> series, periods |-> 252] ELSE Zero

\* The totals V[1], V[2], ... a series of daily returns was computed from:
\* its entry k is (V[k+1] - V[k]) / V[k].
Totals(series) ==
    [i \in 1..(Len(series) + 1) |->
        IF i = 1 THEN series[1].den ELSE series[i - 1].num + series[i - 1].den]

\* line 280: (1 + daily_returns_series).cumprod() at the total t >= 2.  The
\* factors are V[k] / V[k-1], so the product is V[t] / V[1] until a total is
\* 0; the factor after a 0 total is inf or nan and makes the product nan,
\* which cumprod leaves out of the products that follow.
Cumulative(V, t) ==
    IF \A k \in 1..(t - 1) : V[k] # 0 THEN [num |-> V[t], den |-> V[1]]
    ELSE IF V[t - 1] = 0 THEN NaN
    ELSE [num |-> 0, den |-> V[1]]

RECURSIVE RunningMax(_, _)
\* line 281: expanding().max() at t, the largest product so far that is not
\* nan (nan if there is none)
RunningMax(V, t) ==
    IF t < 2 THEN NaN
    ELSE LET c == Cumulative(V, t)
             m == RunningMax(V, t - 1)
         IN  IF IsNaN(c) THEN m
             ELSE IF IsNaN(m) THEN c
             ELSE IF QLess(m, c) THEN c ELSE m

\* line 282: (cumulative_returns - running_max) / running_max at t
Drawdown(V, t) ==
    LET c == Cumulative(V, t)
        m == RunningMax(V, t)
        sign == IF V[1] < 0 THEN 0 - 1 ELSE 1
    IN  IF IsNaN(c) \/ IsNaN(m) THEN NaN
        ELSE [num |-> (c.num - m.num) * sign, den |-> m.num * sign]

RECURSIVE MinDrawdown(_, _)
\* drawdown.min() over the snapshots 2..t, nan entries left out
MinDrawdown(V, t) ==
    IF t < 2 THEN NaN
    ELSE LET d == Drawdown(V, t)
             m == MinDrawdown(V, t - 1)
         IN  IF IsNaN(d) THEN m
             ELSE IF IsNaN(m) THEN d
             ELSE IF QLess(d, m) THEN d ELSE m

\* lines 280-283: the minimum of an empty series is nan
max_drawdown(series) ==
    IF series = <<>> THEN NaN ELSE MinDrawdown(Totals(series), Len(series) + 1)

\* mutant of CountSells: the buys are counted
CountBuys(log) == Cardinality({i \in 1..Len(log) : log[i].action = "BUY"})

CountSells(log) == Cardinality({i \in 1..Len(log) : log[i].action = "SELL"})

calculate_results ==
    IF portfolio_values = <<>> THEN EmptyResult
    ELSE LET final == portfolio_values[Len(portfolio_values)].total_value
             total_trades == Len(trades)
             winning_trades == CountSells(trades)
         IN  [returned |-> TRUE, empty |-> FALSE,
              initial_capital |-> initial_capital,
              final_capital |-> final,
              total_return |-> [num |-> final - initial_capital, den |-> initial_capital],
              days |-> all_dates[Len(all_dates)] - all_dates[1],
              annual_return |-> annual_return(
                  [num |-> final - initial_capital, den |-> initial_capital],
                  all_dates[Len(all_dates)] - all_dates[1]),
              sharpe_ratio |-> sharpe_ratio(AfterFirst(daily_returns)),
              max_drawdown |-> max_drawdown(AfterFirst(daily_returns)),
              total_trades |-> total_trades,
              winning_trades |-> winning_trades,
              win_rate |-> IF total_trades > 0
                           THEN [num |-> winning_trades, den |-> total_trades]
                           ELSE Zero,
              portfolio_history |-> portfolio_values,
              trades |-> trades,
              daily_returns |-> daily_returns]

\* mutant of CalculateResults: without the guard of line 261 the first
\* lookup in an empty snapshot table raises
CalculateResultsUnguarded ==
    /\ pc = "calc"
    /\ IF portfolio_values = <<>>
       THEN /\ results' = NoResult
            /\ pc' = "raised"
            /\ outcomes' = Append(outcomes,
                   [status |-> "raised", results |-> NoResult, trades |-> trades,
                    portfolio_values |-> portfolio_values, daily_returns |-> daily_returns])
       ELSE /\ results' = calculate_results
            /\ pc' = "done"
            /\ outcomes' = Append(outcomes,
                   [status |-> "returned", results |-> results', trades |-> trades,
                    portfolio_values |-> portfolio_values, daily_returns |-> daily_returns])
    /\ handed' = IF results'.returned /\ ~results'.empty
                 THEN Append(handed, HandedResult(trades, daily_returns))
                 ELSE handed
    /\ UNCHANGED <<inputs, parked, engine, locals, runs>>

CalculateResults ==
    /\ pc = "calc"
    /\ results' = calculate_results
    /\ pc' = "done"
    /\ outcomes' = Append(outcomes,
           [status |-> "returned", results |-> results', trades |-> trades,
            portfolio_values |-> portfolio_values, daily_returns |-> daily_returns])
    /\ handed' = IF ~results'.empty
                 THEN Append(handed, HandedResult(trades, daily_returns))
                 ELSE handed
    /\ UNCHANGED <<inputs, parked, engine, locals, runs>>

Next ==
    \/ RunBacktest
    \/ Reset
    \/ ProcessDate
    \/ ExecuteNoTrade
    \/ ExecuteBuy
    \/ SkipBuy
    \/ ExecuteSell
    \/ UpdatePortfolioValue
    \/ CalculateResults

Spec == Init /\ [][Next]_vars

(***************************************************************************)
(* Two callers of the module-level engine (backtest_engine.py:370-371,     *)
(* main.py:100): after a first call has run alone, both call run_backtest  *)
(* with the same inputs and their per-date steps interleave.  The engine   *)
(* fields are the ones of the single object; each caller has its own       *)
(* frame (the locals of run_backtest and the result it is given), the      *)
(* frame of the caller that is not running being kept in parked.           *)
(***************************************************************************)
InitShared ==
    /\ Init
    /\ data \in [{SymbolOrder[1]} -> {FullSeries(p) : p \in [TailDays -> PriceLevels]}]
    /\ start_date = FirstTailDay
    /\ end_date = LastDay
    /\ initial_capital > 0

\* the first call alone, then two more calls, the last of them by the second
\* caller if that one has not called before
CallBacktest ==
    /\ runs < MaxRuns + 1
    /\ parked.pc = "idle" => runs < MaxRuns
    /\ run_backtest

\* the other caller runs next; a caller is preempted between two dates
Switch ==
    /\ Len(outcomes) >= 1
    /\ pc \in {"idle", "signals", "calc", "done", "raised"}
    /\ parked.pc \in {"idle", "signals", "calc"}
    /\ parked' =
           [pc |-> pc, all_dates |-> all_dates, di |-> di, si |-> si,
            current_prices |-> current_prices, signals |-> signals,
            hist_data |-> hist_data, exec |-> exec, results |-> results]
    /\ pc' = parked.pc
    /\ all_dates' = parked.all_dates
    /\ di' = parked.di
    /\ si' = parked.si
    /\ current_prices' = parked.current_prices
    /\ signals' = parked.signals
    /\ hist_data' = parked.hist_data
    /\ exec' = parked.exec
    /\ results' = parked.results
    /\ UNCHANGED <<inputs, engine, handed, runs, outcomes>>

NextShared ==
    \/ CallBacktest
    \/ ProcessDate
    \/ ExecuteNoTrade
    \/ ExecuteBuy
    \/ SkipBuy
    \/ ExecuteSell
    \/ UpdatePortfolioValue
    \/ CalculateResults
    \/ Switch

SpecShared == InitShared /\ [][NextShared]_vars

(***************************************************************************)
(* Notions shared by the properties.                                       *)
(***************************************************************************)
LastOf(seq) == seq[Len(seq)]

\* the date being processed
CurrentDate == all_dates[di]

\* the step appends one trade record
Traded == Len(trades') = Len(trades) + 1

\* the series of the mapping that have rows
NonEmptySeries == {s \in DOMAIN data : DOMAIN data[s] # {}}

\* the dates of the range that every series with rows has
AlignedDates ==
    {d \in UNION {DOMAIN data[s] : s \in DOMAIN data} :
        /\ start_date <= d
        /\ d <= end_date
        /\ \A s \in NonEmptySeries : d \in DOMAIN data[s]}

\* the mapping without one of its keys
Without(dat, e) == [s \in DOMAIN dat \ {e} |-> dat[s]]

\* the value of the holdings at the close prices of a date
HoldingsAt(date) ==
    SumOver(DOMAIN positions, [s \in DOMAIN positions |-> positions[s] * data[s][date]])

(***************************************************************************)
(* C1: every snapshot has total_value = cash + position_value, the cash    *)
(* being the engine's cash after the trades of the date and the position   *)
(* value the sum over all holdings of quantity times the close of the      *)
(* date.  Between the snapshot of a date and the first trade of the next   *)
(* one the engine's cash and holdings are those the snapshot was taken of. *)
(***************************************************************************)
C1_SnapshotAccounting ==
    /\ \A i \in 1..Len(portfolio_values) :
           portfolio_values[i].total_value =
               portfolio_values[i].cash + portfolio_values[i].position_value
    /\ (pc \in {"signals", "calc", "done", "raised"} /\ portfolio_values # <<>>) =>
           LET snap == LastOf(portfolio_values)
           IN  /\ snap.cash = current_capital
               /\ \A s \in DOMAIN positions : snap.date \in DOMAIN data[s]
               /\ snap.position_value = HoldingsAt(snap.date)
               /\ snap.total_value = current_capital + HoldingsAt(snap.date)

\* a snapshot taken with a holding that is worth something
C1_Witness ==
    /\ pc \in {"signals", "calc"}
    /\ portfolio_values # <<>>
    /\ DOMAIN positions # {}
    /\ LastOf(portfolio_values).position_value # 0

(***************************************************************************)
(* C2: an execution step for one instrument and date either appends one    *)
(* trade record, moves the tracked quantity by the signed trade quantity   *)
(* to the target and moves the cash by the value and the cost, or changes  *)
(* none of cash, positions and trade log.                                  *)
(***************************************************************************)
C2_WholeTrade ==
    LET plan == TradePlan(CurrentSymbol)
        t == LastOf(trades')
        signed == IF t.action = "BUY" THEN t.quantity ELSE 0 - t.quantity
    IN  /\ Traded
        /\ t.symbol = CurrentSymbol
        /\ QuantityHeld(positions', t.symbol) = QuantityHeld(positions, t.symbol) + signed
        /\ QuantityHeld(positions', t.symbol) = plan.target_quantity
        /\ current_capital' = current_capital - signed * t.price - t.cost

C2_AllOrNothing ==
    [][pc = "trades" => (C2_WholeTrade \/ UNCHANGED <<current_capital, positions, trades>>)]_vars

(***************************************************************************)
(* C3: a sell never sells more than the engine holds of the instrument.    *)
(***************************************************************************)
C3_SellBacked ==
    [][(Traded /\ LastOf(trades').action = "SELL") =>
          LastOf(trades').quantity <= QuantityHeld(positions, LastOf(trades').symbol)]_vars

(***************************************************************************)
(* C4: a buy executes only if trade_value + cost <= cash; a buy that needs *)
(* more than the cash is skipped: cash, positions and trade log stay as    *)
(* they are, nothing is raised and the run goes on with the next           *)
(* instrument or with the snapshot of the date.                            *)
(***************************************************************************)
C4_BuyWithinCash ==
    (Traded /\ LastOf(trades').action = "BUY") =>
        LastOf(trades').value + LastOf(trades').cost <= current_capital

C4_SkipLeavesState ==
    (/\ pc = "trades"
     /\ TradePlan(CurrentSymbol).trade_quantity > 0
     /\ TradePlan(CurrentSymbol).trade_value + TradePlan(CurrentSymbol).total_cost
            > current_capital) =>
        /\ UNCHANGED <<current_capital, positions, trades>>
        /\ \/ pc' = "trades" /\ si' = si + 1
           \/ pc' = "snapshot" /\ si = Len(Keys(signals))

C4_BuyOnlyIfAffordable == [][C4_BuyWithinCash /\ C4_SkipLeavesState]_vars

\* a buy was skipped for lack of cash and the run has moved on
C4_Witness ==
    /\ exec.branch = "skip"
    /\ exec.trade_quantity > 0
    /\ exec.trade_value + exec.total_cost > current_capital
    /\ pc \in {"trades", "snapshot"}

(***************************************************************************)
(* C5: the history handed to generate_signals for a date holds the rows    *)
(* of the series dated on or before that date and no later row, and the    *)
(* signal of the date is the one computed from that history.               *)
(***************************************************************************)
C5_NoLookahead ==
    pc \in {"trades", "snapshot"} =>
        /\ \A s \in DOMAIN hist_data :
               /\ \A d \in DOMAIN hist_data[s] : d <= CurrentDate
               /\ \A d \in DOMAIN data[s] : d > CurrentDate => d \notin DOMAIN hist_data[s]
               /\ \A d \in DOMAIN hist_data[s] : hist_data[s][d] = data[s][d]
        /\ \A s \in DOMAIN signals :
               /\ s \in DOMAIN hist_data
               /\ signals[s] = generate_signals(hist_data[s])[CurrentDate]

\* a signal was computed on a date after which the series has further rows
C5_Witness ==
    /\ pc = "trades"
    /\ \E s \in DOMAIN signals :
           /\ signals[s] # 0
           /\ \E d \in DOMAIN data[s] : d > CurrentDate

(***************************************************************************)
(* C6: the aligned dates are exactly the dates of [start, end] that every  *)
(* series with rows has, in strictly ascending order.                      *)
(***************************************************************************)
C6_AlignedDatesAreIntersection ==
    pc # "idle" =>
        /\ {all_dates[i] : i \in 1..Len(all_dates)} = AlignedDates
        /\ \A i \in 1..Len(all_dates) : \A j \in 1..Len(all_dates) :
               i < j => all_dates[i] < all_dates[j]
        /\ (\E s \in NonEmptySeries :
               \A d \in DOMAIN data[s] : d < start_date \/ d > end_date) => all_dates = <<>>

\* two series with rows, one of them with a date of the range that the other
\* lacks, and a date they share
C6_Witness ==
    /\ pc # "idle"
    /\ all_dates # <<>>
    /\ \E s \in NonEmptySeries : \E d \in DOMAIN data[s] :
           /\ start_date <= d
           /\ d <= end_date
           /\ d \notin AlignedDates

(***************************************************************************)
(* C7: a series without rows is skipped wherever it stands in the mapping: *)
(* the aligned dates are those of the mapping without it, and when some    *)
(* series has rows the result is empty only if the series with rows share  *)
(* no date of the range.                                                   *)
(***************************************************************************)
C7_EmptySeriesSkipped ==
    pc # "idle" =>
        /\ \A e \in DOMAIN data :
               DOMAIN data[e] = {} =>
                   all_dates = get_common_dates(Without(data, e), start_date, end_date)
        /\ (all_dates = <<>> /\ NonEmptySeries # {}) => AlignedDates = {}

\* the first series of the mapping has no rows and dates are aligned
C7_Witness ==
    /\ pc # "idle"
    /\ DOMAIN data = Symbols
    /\ DOMAIN data[SymbolOrder[1]] = {}
    /\ Len(all_dates) > 1

(***************************************************************************)
(* C8: with no aligned date a run processes no date, records no snapshot,  *)
(* no daily return and no trade, and returns the empty result; it does     *)
(* not raise.                                                              *)
(***************************************************************************)
C8_EmptyRun ==
    (pc # "idle" /\ all_dates = <<>>) =>
        /\ pc \in {"calc", "done"}
        /\ trades = <<>>
        /\ portfolio_values = <<>>
        /\ daily_returns = <<>>
        /\ pc = "done" =>
               /\ results = EmptyResult
               /\ LastOf(outcomes).status = "returned"

\* a finished run over two series with rows that share no date
C8_Witness ==
    /\ pc = "done"
    /\ all_dates = <<>>
    /\ results = EmptyResult
    /\ \E s \in NonEmptySeries : \E t \in NonEmptySeries :
           DOMAIN data[s] \cap DOMAIN data[t] = {}

(***************************************************************************)
(* C9: a run given a series without rows, a non-positive initial capital   *)
(* or a start date after the end date is refused before the simulation     *)
(* starts: no date is processed and no trade or snapshot is recorded.      *)
(***************************************************************************)
InvalidInput ==
    \/ \E s \in DOMAIN data : DOMAIN data[s] = {}
    \/ initial_capital <= 0
    \/ start_date > end_date

C9_InvalidInputRefused ==
    InvalidInput =>
        /\ pc \notin {"trades", "snapshot"}
        /\ trades = <<>>
        /\ portfolio_values = <<>>

(***************************************************************************)
(* C10: every run of the same inputs ends as the first one did: the same   *)
(* trade log, the same snapshots and daily returns, the same result.       *)
(***************************************************************************)
C10_Deterministic == \A i \in 1..Len(outcomes) : outcomes[i] = outcomes[1]

\* a second run has ended, with trades in its log
C10_Witness ==
    /\ Len(outcomes) >= 2
    /\ LastOf(outcomes).status = "returned"
    /\ Len(LastOf(outcomes).trades) >= 2

(***************************************************************************)
(* C11: reset(), called in any state reached after any runs, leaves the    *)
(* cash at the initial capital and the holdings, the trade log, the        *)
(* snapshots and the daily returns empty; and every run, whatever it       *)
(* follows, ends as the first run on the newly built engine did.           *)
(***************************************************************************)
FreshEngine ==
    /\ current_capital = initial_capital
    /\ positions = NoPositions
    /\ trades = <<>>
    /\ portfolio_values = <<>>
    /\ daily_returns = <<>>

\* the steps that call reset(): the caller's own, and the first of a run
ResetCalled == (pc \in {"idle", "done", "raised"} /\ pc' = pc) \/ runs' = runs + 1

C11_ResetThenRunAsFresh ==
    [][/\ ResetCalled => FreshEngine'
       /\ Len(outcomes') > Len(outcomes) => LastOf(outcomes') = outcomes'[1]]_vars

\* reset() has cleared an engine on which two runs left trades and holdings
C11_Witness ==
    /\ pc = "done"
    /\ Len(outcomes) = 2
    /\ results.returned /\ ~results.empty /\ results.trades # <<>>
    /\ LastOf(results.portfolio_history).position_value # 0
    /\ FreshEngine

IsZero(q) == "num" \in DOMAIN q /\ q.num = 0 /\ q.den # 0

C15_DegenerateMetricsAreZero ==
    (~InvalidInput /\ pc = "done" /\ ~results.empty) =>
        /\ results.days = 0 =>
               /\ IsZero(results.annual_return)
               /\ IsZero(results.sharpe_ratio)
               /\ IsZero(results.max_drawdown)
        /\ ~StdPositive(AfterFirst(results.daily_returns)) => IsZero(results.sharpe_ratio)
        /\ results.total_trades = 0 => IsZero(results.win_rate)

(***************************************************************************)
(* C16: in every non-empty result total_trades is the length of the trade  *)
(* log and win_rate is the number of SELL records over total_trades, or 0  *)
(* for an empty log; so win_rate lies between 0 and 1.                     *)
(***************************************************************************)
SellRecords(log) == {i \in 1..Len(log) : log[i].action = "SELL"}

C16_TradeStatistics ==
    (pc = "done" /\ ~results.empty) =>
        /\ results.trades = LastOf(outcomes).trades
        /\ results.total_trades = Len(results.trades)
        /\ results.winning_trades = Cardinality(SellRecords(results.trades))
        /\ results.win_rate =
               IF results.trades = <<>> THEN [num |-> 0, den |-> 1]
               ELSE [num |-> Cardinality(SellRecords(results.trades)),
                     den |-> Len(results.trades)]
        /\ results.win_rate.den > 0
        /\ 0 <= results.win_rate.num /\ results.win_rate.num <= results.win_rate.den

\* a result whose log has sells and buys, more of the one than of the other
C16_Witness ==
    /\ pc = "done" /\ ~results.empty
    /\ SellRecords(results.trades) # {}
    /\ 2 * Cardinality(SellRecords(results.trades)) # Len(results.trades)
    /\ Cardinality(SellRecords(results.trades)) < Len(results.trades)

(***************************************************************************)
(* C17: the position map never holds an entry whose quantity is exactly    *)
(* zero: a buy or a sell that brings a quantity to zero removes the entry. *)
(***************************************************************************)
C17_NoZeroEntry == \A s \in DOMAIN positions : positions[s] # 0

(***************************************************************************)
(* C18: with a positive initial capital (prices are positive in every      *)
(* series) no daily return is computed from a previous snapshot whose      *)
(* total value is 0.                                                       *)
(***************************************************************************)
C18_PreviousValueNeverZero ==
    initial_capital > 0 => \A i \in 1..Len(daily_returns) : daily_returns[i].den # 0

(***************************************************************************)
(* C19: a run goes through the aligned dates once each, in strictly        *)
(* ascending order; on a date it first takes the signals of all            *)
(* instruments, then executes the trades one signal after the other, then  *)
(* records one snapshot.  The dates of the trade log never decrease, the   *)
(* dates of the snapshots strictly increase, a trade dated d is logged     *)
(* before the snapshot of d, every step of a run advances it, and the      *)
(* metrics are computed once, after the last date.                         *)
(***************************************************************************)
Phase(p) ==
    CASE p = "signals" -> 0
      [] p = "trades" -> 1
      [] p = "snapshot" -> 2
      [] p = "calc" -> 3
      [] OTHER -> 4

C19_Ordered ==
    /\ \A i \in 1..Len(all_dates) : \A j \in 1..Len(all_dates) :
           i < j => all_dates[i] < all_dates[j]
    /\ \A i \in 1..Len(portfolio_values) : portfolio_values[i].date = all_dates[i]
    /\ \A i \in 1..Len(trades) : \A j \in 1..Len(trades) :
           i < j => trades[i].date <= trades[j].date
    /\ pc \in {"signals", "trades", "snapshot"} => Len(portfolio_values) = di - 1
    /\ pc = "calc" => Len(portfolio_values) = Len(all_dates)
    /\ pc = "trades" => si \in 1..Len(Keys(signals))
    /\ Len(outcomes) = IF pc \in {"idle", "done", "raised"} THEN runs ELSE runs - 1

C19_Advance ==
    /\ pc = "signals" => pc' \in {"trades", "snapshot"} /\ di' = di
    /\ pc = "trades" =>
           /\ di' = di
           /\ \/ pc' = "trades" /\ si' = si + 1
              \/ pc' = "snapshot" /\ si = Len(Keys(signals))
    /\ pc = "snapshot" =>
           /\ Len(portfolio_values') = Len(portfolio_values) + 1
           /\ \/ pc' = "signals" /\ di' = di + 1
              \/ pc' = "calc" /\ di = Len(all_dates)
              \/ pc' = "raised"
    /\ pc = "calc" => pc' = "done"
    /\ Phase(pc) < 4 => (di < di' \/ Phase(pc) < Phase(pc') \/ si < si')
    /\ Len(trades') > Len(trades) =>
           /\ pc = "trades"
           /\ trades' = Append(trades, LastOf(trades'))
           /\ LastOf(trades').date = all_dates[di]
           /\ \A i \in 1..Len(portfolio_values) :
                  portfolio_values[i].date < LastOf(trades').date
    /\ Len(outcomes') > Len(outcomes) => pc \in {"calc", "snapshot"}

C20_TradeRecordArithmetic ==
    \A i \in 1..Len(trades) :
        /\ trades[i].quantity > 0
        /\ trades[i].value = trades[i].quantity * trades[i].price
        /\ trades[i].cost * RateDen = trades[i].value * (commission + slippage)

\* the log holds a buy and a sell of different sizes
C20_Witness ==
    /\ Len(trades) >= 2
    /\ \E i \in 1..Len(trades) : trades[i].action = "BUY"
    /\ \E i \in 1..Len(trades) : trades[i].action = "SELL" /\ trades[i].quantity # trades[1].quantity

(***************************************************************************)
(* C13: two callers running backtests at the same time do not share        *)
(* engine state: with their per-date steps interleaved, each call ends     *)
(* with the trade log, the snapshots, the daily returns and the result of  *)
(* the same call run alone.                                                *)
(***************************************************************************)
C13_ConcurrentRunsIsolated == \A i \in 1..Len(outcomes) : outcomes[i] = outcomes[1]


(***************************************************************************)
(* The cash ledger: trade records, running balance and snapshots.          *)
(***************************************************************************)
\* the cash a log of trades adds to the account: what the sells bring in
\* less what the buys take out, costs included
RECURSIVE CashFlow(_)
CashFlow(log) ==
    IF log = <<>> THEN 0
    ELSE LET t == log[Len(log)]
         IN  CashFlow(SubSeq(log, 1, Len(log) - 1))
               + (IF t.action = "BUY" THEN 0 - (t.value + t.cost) ELSE t.value - t.cost)

\* the trades of a log dated no later than date
TradesUpTo(log, date) == SelectSeq(log, LAMBDA t : t.date <= date)

\* the balance a snapshot must show: that of the most recent trade, or the
\* initial capital when nothing was traded yet
BalanceAt(log, date) ==
    IF TradesUpTo(log, date) = <<>> THEN initial_capital
    ELSE LastOf(TradesUpTo(log, date)).capital

C21_RecordedBalance ==
    Traded =>
        LET t == LastOf(trades')
        IN  /\ t.capital = current_capital'
            /\ t.action = "BUY" => t.capital = current_capital - t.value - t.cost
            /\ t.action = "SELL" => t.capital = current_capital + t.value - t.cost

C21_Ledger ==
    /\ current_capital = initial_capital + CashFlow(trades)
    /\ \A i \in 1..Len(portfolio_values) :
           portfolio_values[i].cash = BalanceAt(trades, portfolio_values[i].date)

\* C21: the balance of a trade record is the cash right after the trade (the
\* cash before it less value and cost for a buy, plus value less cost for a
\* sell), the cash is always the initial capital plus the flow of the logged
\* trades, and a snapshot's cash is the balance of the most recent trade, or
\* the initial capital when there was none.
C21_CashLedger == []C21_Ledger /\ [][C21_RecordedBalance]_vars

\* a snapshot taken after a buy and a sell, and an earlier one before any trade
C21_Witness ==
    /\ \E i, j \in 1..Len(trades) : trades[i].action = "BUY" /\ trades[j].action = "SELL"
    /\ Len(portfolio_values) >= 2
    /\ TradesUpTo(trades, portfolio_values[1].date) = <<>>
    /\ LastOf(portfolio_values).date >= LastOf(trades).date
    /\ LastOf(portfolio_values).cash # initial_capital


(***************************************************************************)
(* The iteration that has nothing to trade.                                *)
(***************************************************************************)
\* C22: when the target quantity of the instrument at hand equals the
\* quantity tracked for it, the execution step changes neither the cash nor
\* the position map nor the trade log.
C22_ZeroQuantityNoEffect ==
    [][(/\ pc = "trades"
        /\ CurrentSymbol \in DOMAIN current_prices
        /\ TradePlan(CurrentSymbol).trade_quantity = 0)
       => (/\ current_capital' = current_capital
           /\ positions' = positions
           /\ trades' = trades)]_vars

\* the step was taken, with trades already in the log, for an instrument
\* whose target and tracked quantity are both 0 (within the prices of the
\* model no holding ever sits exactly at a non-zero target)
C22_Witness ==
    /\ exec.branch = "notrade"
    /\ exec.trade_quantity = 0
    /\ exec.target_quantity = exec.current_quantity
    /\ trades # <<>>


(***************************************************************************)
(* Instruments whose history is too short on a simulated date.             *)
(***************************************************************************)
\* the rows of an instrument's frame dated no later than date
RowsUpTo(symbol, date) == Cardinality({d \in DOMAIN data[symbol] : d <= date})

\* the instruments with at most MinHistory rows up to date
ShortOn(date) == {s \in DOMAIN data : RowsUpTo(s, date) <= MinHistory}

\* after _process_date looked at the date: no signal for a short instrument,
\* and no trade of the log was made on a date its instrument was short
C23_NoSignalNoTrade ==
    /\ pc \in {"trades", "snapshot"} => DOMAIN signals \cap ShortOn(CurrentDate) = {}
    /\ \A i \in 1..Len(trades) : trades[i].symbol \notin ShortOn(trades[i].date)

\* while the date is processed the tracked quantity of a short instrument
\* stays as it is, and the date gets its snapshot
C23_HeldAndSnapshotted ==
    (pc \in {"signals", "trades", "snapshot"} /\ ShortOn(CurrentDate) # {}) =>
        /\ \A s \in ShortOn(CurrentDate) :
               /\ s \in DOMAIN positions' <=> s \in DOMAIN positions
               /\ QuantityHeld(positions', s) = QuantityHeld(positions, s)
        /\ pc = "snapshot" =>
               /\ Len(portfolio_values') = Len(portfolio_values) + 1
               /\ LastOf(portfolio_values').date = CurrentDate

\* C23: on a date where an instrument has at most 20 rows of history up to
\* and including that date, the instrument gets no signal, no trade is
\* recorded for it and its tracked quantity does not change, while the date
\* is simulated and gets its snapshot.
C23_ShortHistorySkipped == []C23_NoSignalNoTrade /\ [][C23_HeldAndSnapshotted]_vars

\* a date with a short instrument got its snapshot while the other
\* instrument was traded on it
C23_Witness ==
    /\ portfolio_values # <<>>
    /\ ShortOn(LastOf(portfolio_values).date) \cap DOMAIN current_prices # {}
    /\ \E i \in 1..Len(trades) : trades[i].date = LastOf(portfolio_values).date


(***************************************************************************)
(* The sizing functions.                                                   *)
(***************************************************************************)
\* SignalStrategy.calculate_position_size, base_strategy.py lines 166-187,
\* with the default signal_threshold of 0.5
signal_threshold == [num |-> 1, den |-> 2]

SignalStrategy_calculate_position_size(signal, price, capital) ==
    IF Abs(signal) * signal_threshold.den < signal_threshold.num THEN 0
    ELSE LET max_shares ==
                 TruncDiv(capital * Abs(signal) * position_size.num,
                          position_size.den * price)
         IN  IF signal > 0 THEN max_shares ELSE 0 - max_shares

\* what is said of a target: its magnitude is the budget capital * |signal| *
\* position_size over the price, truncated toward zero; its sign is that of
\* the signal; its value at the price stays within the budget
C24_Sized(target, signal, price, capital) ==
    LET budget_num == capital * Abs(signal) * position_size.num
        budget_den == position_size.den
    IN  /\ Abs(target) = Abs(TruncDiv(budget_num, budget_den * price))
        /\ signal > 0 => target >= 0
        /\ signal < 0 => target <= 0
        /\ signal = 0 => target = 0
        /\ Abs(target) * price * budget_den <= budget_num

\* C24: whenever the engine sizes a position, the target returned by the
\* sizing function (the dual-MA one, and the thresholded one of the signal
\* strategy base class on the same arguments) is capital * |signal| *
\* position_size / price truncated toward zero, carries the sign of the
\* signal, is 0 for a signal of 0, and times the price does not exceed
\* capital * |signal| * position_size.
C24_TargetWithinBudget ==
    (pc = "trades" /\ CurrentSymbol \in DOMAIN current_prices) =>
        LET signal == signals[CurrentSymbol]
            price == current_prices[CurrentSymbol]
        IN  /\ C24_Sized(calculate_position_size(signal, price, current_capital),
                         signal, price, current_capital)
            /\ C24_Sized(SignalStrategy_calculate_position_size(signal, price, current_capital),
                         signal, price, current_capital)


(***************************************************************************)
(* The value of the portfolio across a trade.                              *)
(***************************************************************************)
\* cash plus the tracked holdings at the prices of the date at hand
MarkedValue(cash, pos) == cash + PositionValue(pos, current_prices)

\* C25: a step that executes a trade changes the total value of the
\* portfolio marked at the prices of the date (cash plus tracked quantity
\* times price) by exactly minus the cost of the trade.
C25_TradeCostsItsCost ==
    [][Traded =>
          MarkedValue(current_capital', positions')
              = MarkedValue(current_capital, positions) - LastOf(trades').cost]_vars


(***************************************************************************)
(* The sign of the cash.                                                   *)
(***************************************************************************)
\* every close of the data is positive, and the two rates sum to less than 1
PositivePrices == \A s \in DOMAIN data : \A d \in DOMAIN data[s] : data[s][d] > 0
RatesBelowOne == commission + slippage < RateDen

\* C26: with a non-negative initial capital, positive prices and
\* commission + slippage below 1, the cash of the engine is never negative,
\* whatever buys, sells and skipped buys were made.
C26_CashNeverNegative ==
    (initial_capital >= 0 /\ PositivePrices /\ RatesBelowOne) => current_capital >= 0

\* a buy was skipped for lack of cash after a buy and a sell were executed
C26_Witness ==
    /\ initial_capital >= 0
    /\ exec.branch = "skip"
    /\ \E i, j \in 1..Len(trades) : trades[i].action = "BUY" /\ trades[j].action = "SELL"


(***************************************************************************)
(* Holdings and the prices of the date.                                    *)
(***************************************************************************)
\* once the prices of the date are collected, every tracked instrument has one
C27_HoldingsPriced ==
    pc \in {"trades", "snapshot"} =>
        \A s \in DOMAIN positions :
            /\ s \in DOMAIN data
            /\ CurrentDate \in DOMAIN data[s]
            /\ s \in DOMAIN current_prices
            /\ current_prices[s] = data[s][CurrentDate]

\* the snapshot values every tracked instrument at its close of the date
C27_AllMarked ==
    pc = "snapshot" =>
        LastOf(portfolio_values').position_value
            = SumOver(DOMAIN positions,
                      [s \in DOMAIN positions |-> positions[s] * data[s][CurrentDate]])

\* C27: on every simulated date every instrument of the position map has a
\* close for that date, and the position value of the snapshot counts every
\* holding at that close: none is left out for lack of a price.
C27_EveryHoldingMarked == []C27_HoldingsPriced /\ [][C27_AllMarked]_vars

\* a snapshot taken with two instruments held, on a date after the one the
\* first of them was bought
C27_Witness ==
    /\ portfolio_values # <<>>
    /\ pc \in {"signals", "calc"}
    /\ Cardinality(DOMAIN positions) = 2
    /\ LastOf(portfolio_values).position_value # 0
    /\ \E i \in 1..Len(trades) : trades[i].date < LastOf(portfolio_values).date


(***************************************************************************)
(* A held instrument on a date without a crossing.                         *)
(***************************************************************************)
\* the iteration for a held instrument whose signal is 0 sells all of it and
\* takes it out of the position map
C28_SoldOut ==
    (/\ pc = "trades"
     /\ CurrentSymbol \in DOMAIN current_prices
     /\ signals[CurrentSymbol] = 0
     /\ QuantityHeld(positions, CurrentSymbol) > 0)
    => (/\ TradePlan(CurrentSymbol).target_quantity = 0
        /\ Traded
        /\ LastOf(trades').action = "SELL"
        /\ LastOf(trades').symbol = CurrentSymbol
        /\ LastOf(trades').date = CurrentDate
        /\ LastOf(trades').quantity = positions[CurrentSymbol]
        /\ CurrentSymbol \notin DOMAIN positions')

\* when the trades of a date are done, an instrument still held has a
\* non-zero signal on that date, or none
C28_HeldOnlyWithSignal ==
    pc = "snapshot" =>
        \A s \in DOMAIN positions :
            positions[s] > 0 => (s \notin DOMAIN signals \/ signals[s] # 0)

\* C28: under the dual-MA strategy, on a date where an instrument held with
\* a positive quantity q gets the signal 0, the target is 0 and the engine
\* sells q shares on that date and removes the instrument from the position
\* map; so a positive holding outlasts a date only if the signal of that
\* date is non-zero or the instrument has no signal on it.
C28_ZeroSignalSellsOut == []C28_HeldOnlyWithSignal /\ [][C28_SoldOut]_vars

\* the whole of a holding bought on an earlier date was sold on a signal of 0
C28_Witness ==
    /\ exec.branch = "sell"
    /\ exec.signal = 0
    /\ exec.current_quantity > 0
    /\ exec.trade_quantity = 0 - exec.current_quantity
    /\ exec.symbol \notin DOMAIN positions
    /\ \E i \in 1..Len(trades) :
           trades[i].action = "BUY" /\ trades[i].symbol = exec.symbol


(***************************************************************************)
(* The lists of a returned result.                                         *)
(***************************************************************************)
\* what the caller reads in the two lists of the i-th returned result
HandedTrades(i) == IF handed[i].live THEN trades ELSE handed[i].trades
HandedReturns(i) == IF handed[i].live THEN daily_returns ELSE handed[i].daily_returns

C29_HandedListsKept ==
    \A i \in 1..Len(handed) :
        /\ HandedTrades(i)' = HandedTrades(i)
        /\ HandedReturns(i)' = HandedReturns(i)

\* C29: the trade log and the list of daily returns of a result that a
\* completed run returned are changed by no later step of the engine,
\* reset() and later runs included: reset() gives the engine new lists
\* instead of emptying or extending the ones the caller holds.
C29_ReturnedListsUntouched == [][C29_HandedListsKept]_vars

\* a first result with trades in its log is held while a later run, started
\* after a reset, has logged trades of its own
C29_Witness ==
    /\ Len(handed) >= 1
    /\ ~handed[1].live
    /\ handed[1].trades # <<>>
    /\ handed[1].daily_returns # <<>>
    /\ runs = 2
    /\ trades # <<>>
    /\ Len(trades) < Len(handed[1].trades)


(***************************************************************************)
(* Buys that the sizing keeps affordable.                                  *)
(***************************************************************************)
\* position_size * (1 + commission + slippage) <= 1
SizeLeavesRoomForCost ==
    position_size.num * (RateDen + commission + slippage) <= position_size.den * RateDen

\* the iteration at hand attempts a buy under the stated conditions
C30_BuyAttempted ==
    /\ pc = "trades"
    /\ CurrentSymbol \in DOMAIN current_prices
    /\ TradePlan(CurrentSymbol).trade_quantity > 0
    /\ Abs(signals[CurrentSymbol]) <= 1
    /\ SizeLeavesRoomForCost
    /\ QuantityHeld(positions, CurrentSymbol) >= 0

\* C30: with the baseline sizing, a signal of magnitude at most 1,
\* position_size * (1 + commission + slippage) <= 1 and a tracked quantity
\* that is not negative, every buy the engine attempts passes the cash test
\* (trade value plus cost within the available cash) and is executed: no
\* buy is skipped.
C30_BuyNeverSkipped ==
    [][C30_BuyAttempted =>
          /\ Affordable(TradePlan(CurrentSymbol))
          /\ Traded
          /\ LastOf(trades').action = "BUY"]_vars

====
